---- MODULE Spec2Model ----
(***************************************************************************)
(* xtree: the Git status resolver (src/src/xtree_tools/git.cpp).           *)
(*                                                                         *)
(* A std::string is a sequence of one-character strings.  The output of a  *)
(* git command is read line by line (std::getline), so the model draws one *)
(* line per step from a bounded set of lines.  std::unordered_map is a     *)
(* function whose DOMAIN is its key set; its iteration order is            *)
(* unspecified, so a loop over it visits the keys in any order.            *)
(***************************************************************************)
EXTENDS Integers, Sequences, FiniteSets, TLC

\* ------------------------------------------------------------------ bounds
\* Number of lines of `git status --porcelain` output read in one run.
MaxLines == 2
\* Number of lines of `git ls-files --others -i` output read in one run.
MaxIgn == 1
\* Paths per batched `git log` query.  BATCH_SIZE is 50 (git.cpp:138); the
\* model scales it down so that a table of a few paths spans several batches.
BatchSize == 2
\* Number of lines of `git branch --all` output read in one run.
MaxBranchLines == 3

\* ------------------------------------------------------------- characters
NL == "\n"
CR == "\r"
TAB == "\t"
SP == " "
\* the set " \t\n\r" of trim()
Whitespace == {SP, TAB, NL, CR}

\* ------------------------------------------------------------ the inputs
\* Paths named by the status output.
P_a == <<"a">>
P_sab == <<"s", "/", "a", "/", "b">>
P_sc == <<"s", "/", "c">>
P_d == <<"d", "/">>
P_si == <<"s", "/", "i">>
StatusPaths == {P_a, P_sab, P_sc}

\* Two-character XY codes of tracked entries ("T" is a code the priority
\* table of the resolver does not list) and the untracked prefix.
Codes ==
  { <<SP, "M">>, <<"M", SP>>, <<"A", SP>>, <<"A", "M">>, <<"D", SP>>,
    <<"C", SP>>, <<"T", SP>>, <<"?", "?">> }

Arrow == <<SP, "-", ">", SP>>

\* Lines of `git status --porcelain`: XY, a blank, the path; an untracked
\* directory is listed with a trailing slash, a rename as "old -> new"; a
\* line may end in a carriage return; and short or blank lines, which the
\* parser has to survive.
PorcelainLines ==
  { c \o <<SP>> \o p : c \in Codes, p \in StatusPaths }
    \cup { <<"?", "?", SP>> \o P_d,
           <<"R", SP, SP>> \o P_a \o Arrow \o P_sc,
           <<"R", SP, SP>> \o P_a \o Arrow,
           <<SP, "M", SP>> \o P_a \o <<CR>>,
           <<"?", "?", SP, SP>> \o P_a \o <<CR>>,
           <<"M", SP, SP, SP>>,
           <<"?", "?">>,
           <<"M", SP>>,
           <<"M">>,
           <<>> }

\* Lines of `git ls-files --others -i --exclude-standard`.
IgnoredLines == { P_a, P_si \o <<CR>>, <<SP>>, <<>> }

\* Lines of `git branch --all --no-color`: the current branch is marked "* ",
\* the others are indented by two blanks.
BranchLines ==
  { <<"*", SP, "m">>, <<SP, SP, "d">>, <<SP, SP, "r", "/", "m", CR>>,
    <<SP>>, <<>> }

\* The commands get_git_status runs through runCommandCapture.
Steps == {"branches", "status", "ignored", "log"}

\* What `git log -1 --format='%an|%ad' --date=short` knows: the last commit of
\* each path, 0 for a path no commit touches.  A larger id is a later commit.
AuthorOf(c) == IF c = 2 THEN <<"A", "l">> ELSE <<"B", "o">>
DateOf(c) ==
  IF c = 2
    THEN <<"2", "0", "2", "4", "-", "0", "1", "-", "0", "2">>
    ELSE <<"2", "0", "2", "3", "-", "0", "5", "-", "0", "6", SP, "7", "h">>

AllPaths == StatusPaths \cup {P_d, P_si}

Histories ==
  { [p \in AllPaths |-> IF p = P_a THEN 2 ELSE IF p = P_sab THEN 1 ELSE 0],
    [p \in AllPaths |-> IF p = P_sc THEN 2 ELSE IF p = P_si THEN 0 ELSE 1] }

\* ---------------------------------------------------------------- strings
\* s.find_first_not_of(" \t\n\r"): 0 stands for npos.
FirstNotOf(s) ==
  IF \E i \in 1..Len(s) : s[i] \notin Whitespace
    THEN CHOOSE i \in 1..Len(s) :
           /\ s[i] \notin Whitespace
           /\ \A j \in 1..(i - 1) : s[j] \in Whitespace
    ELSE 0

\* s.find_last_not_of(" \t\n\r"): 0 stands for npos.
LastNotOf(s) ==
  IF \E i \in 1..Len(s) : s[i] \notin Whitespace
    THEN CHOOSE i \in 1..Len(s) :
           /\ s[i] \notin Whitespace
           /\ \A j \in (i + 1)..Len(s) : s[j] \in Whitespace
    ELSE 0

\* trim(s)
Trim(s) ==
  IF FirstNotOf(s) = 0 THEN <<>> ELSE SubSeq(s, FirstNotOf(s), LastNotOf(s))

\* s.substr(pos) with pos counted from 0; std::out_of_range when
\* pos > s.size() is the caller's case SubstrThrows.
Substr(s, pos) == SubSeq(s, pos + 1, Len(s))
SubstrThrows(s, pos) == pos > Len(s)

\* s.find(" -> "): the 1-based index of the first occurrence, 0 for npos.
FindArrow(s) ==
  LET hits == { i \in 1..Len(s) : /\ i + 3 <= Len(s)
                                  /\ SubSeq(s, i, i + 3) = Arrow }
  IN IF hits = {} THEN 0 ELSE CHOOSE i \in hits : \A j \in hits : i <= j

\* s.find_last_of('/'): the 1-based index, 0 for npos.
FindLastSlash(s) ==
  LET hits == { i \in 1..Len(s) : s[i] = "/" }
  IN IF hits = {} THEN 0 ELSE CHOOSE i \in hits : \A j \in hits : j <= i

\* ------------------------------------------------------------ FileGitInfo
\* struct FileGitInfo with its default member initialisers.
DefaultInfo ==
  [x |-> SP, y |-> SP, status |-> "?", ignored |-> FALSE,
   author |-> <<>>, date |-> <<>>]

\* m[k] = v on an unordered_map
Put(m, k, v) == [q \in DOMAIN m \cup {k} |-> IF q = k THEN v ELSE m[q]]

EmptyMap == [q \in {} |-> 0]

VARIABLES
  pc,          \* where get_git_status / findRepoRoot stands
  fileStatus,  \* unordered_map<string, FileGitInfo>
  dirStatus,   \* unordered_map<string, char>
  line,        \* the line read last by std::getline
  written,     \* the fileStatus keys assigned while handling `line`
  nLines,      \* status lines read so far
  nIgn,        \* ignored-list lines read so far
  ignListed,   \* the lines the ignored-file enumeration has listed so far
  history,     \* the commits the tool knows (its answers to git log)
  pending,     \* the filePaths entries no batch has covered yet
  batch,       \* filePaths[i .. end) of the batch handled last
  out,         \* the output of the batched query handled last
  singleQueries, \* per-path queries issued for the batch handled last
  unrolled,    \* the fileStatus keys the rollup loop has yet to visit
  target,      \* the path get_git_status is given
  cwd,         \* the working directory of the process
  gitDirs,     \* the directories of the filesystem that hold a .git directory
  cur,         \* findRepoRoot's cur
  repo_root,   \* findRepoRoot's result
  branches,    \* vector<string> branches
  brSeen,      \* the lines of the branch listing read so far
  canRun,      \* the commands popen can start (runCommandCapture)
  opts,        \* struct Options
  present,     \* the entries that exist under the target directory
  denied,      \* the entries the process has no permission to open
  listed,      \* <<d>> once get_filtered_entries was called, on d last
  entries,     \* what that call returned
  gitOk,       \* what get_git_status returned to main
  dirSizes,    \* unordered_map<string, uintmax_t> of main
  output,      \* the entry lines print_tree wrote to std::cout
  banner,      \* <<branches>> once main wrote the "Branches: " line
  diag,        \* the lines written to std::cerr
  stats,       \* <<[files, lines]>> once main wrote the statistics line
  size,        \* the argument of a call of human_size
  rendered,    \* <<text>> once human_size(size) has returned text
  script,      \* what the git commands print, and how the maps iterate
  earlier,     \* <<tables>> once an earlier run has left its tables
  argv,        \* argv[1], argv[2], ... of main
  argi,        \* the loop variable i of main.cpp:50
  patterns     \* opts.ignorePatterns, a vector

gitVars == <<fileStatus, dirStatus, line, written, nLines, nIgn, ignListed,
             history, pending, batch, out, singleQueries, unrolled>>

rootVars == <<target, cwd, gitDirs, cur, repo_root>>

brVars == <<branches, brSeen>>

walkVars == <<opts, present, denied, listed, entries>>

mainVars == <<gitOk, dirSizes, output, banner, diag, stats>>

sizeVars == <<size, rendered>>

twiceVars == <<script, earlier>>

argVars == <<argv, argi, patterns>>

restVars == <<brVars, canRun, walkVars, mainVars, sizeVars, twiceVars, argVars>>

vars == <<pc, gitVars, rootVars, restVars>>

\* ------------------------------------------------------ runCommandCapture
\* runCommandCapture (git.cpp:31-44) for a command that prints `text`: the
\* empty string when popen fails.
runCommandCapture(step, text) == IF step \in canRun THEN text ELSE <<>>

\* The lines std::getline can read from runCommandCapture's result when the
\* command prints lines of S: none when popen fails.
CapturedLines(step, S) == IF step \in canRun THEN S ELSE {}

\* ------------------------------------------------------------ findRepoRoot
\* An fs::path: whether it has a root directory, and its file names.
AbsPath(c) == [abs |-> TRUE, comps |-> c]
RelPath(c) == [abs |-> FALSE, comps |-> c]
EmptyPath == RelPath(<<>>)

\* The directory tree /r/s/t of the model's filesystem, as absolute name lists.
Dirs == { <<>>, <<"r">>, <<"r", "s">>, <<"r", "s", "t">> }
Cwds == { <<>>, <<"r">>, <<"r", "s">> }
Targets ==
  { RelPath(<<".">>), RelPath(<<"s">>), RelPath(<<"s", "t">>), RelPath(<<"t">>),
    AbsPath(<<>>), AbsPath(<<"r">>), AbsPath(<<"r", "s">>),
    AbsPath(<<"r", "s", "t">>) }

\* p.parent_path(): "/" and "" are their own parents, "a" and "." have "".
ParentPath(p) ==
  IF p.comps = <<>> THEN p
  ELSE [p EXCEPT !.comps = SubSeq(p.comps, 1, Len(p.comps) - 1)]

\* p.root_path(): "/" for an absolute path, "" for a relative one.
RootPath(p) == [p EXCEPT !.comps = <<>>]

\* The directory the operating system resolves p to: a relative path is
\* taken from the working directory, and "." names the directory itself.
RECURSIVE DropDots(_)
DropDots(c) ==
  IF c = <<>> THEN <<>>
  ELSE IF Head(c) = "." THEN DropDots(Tail(c))
  ELSE <<Head(c)>> \o DropDots(Tail(c))

Resolve(p, wd) == IF p.abs THEN DropDots(p.comps) ELSE wd \o DropDots(p.comps)

\* fs::exists(cur / ".git") && fs::is_directory(cur / ".git")
HasDotGit(p, wd, gd) == Resolve(p, wd) \in gd

\* cur == cur.root_path() || cur == cur.parent_path() (git.cpp:25)
AtTop(p) == p = RootPath(p) \/ p = ParentPath(p)

\* One iteration of the while (true) loop of git.cpp:18-28.
FindRepoRootStep ==
  /\ pc = "root"
  /\ IF HasDotGit(cur, cwd, gitDirs)
       THEN /\ repo_root' = cur
            /\ pc' = "rootFound"
            /\ UNCHANGED cur
       ELSE IF AtTop(cur)
         THEN /\ pc' = "rootFailed"
              /\ UNCHANGED <<cur, repo_root>>
         ELSE /\ cur' = ParentPath(cur)
              /\ UNCHANGED <<pc, repo_root>>
  /\ UNCHANGED <<target, cwd, gitDirs, gitVars, restVars>>

\* ------------------------------------------------------ branch enumeration
\* The name pushed for a non-empty line (git.cpp:73-74); empty for none.
BranchName(l) ==
  LET b == Trim(l)
  IN IF b # <<>> /\ b[1] = "*" THEN Substr(b, 1) ELSE b

\* One iteration of the while loop of git.cpp:69-76 on the lines of S.
BranchLineFrom(S) ==
  /\ pc = "branches"
  /\ Len(brSeen) < MaxBranchLines
  /\ \E l \in CapturedLines("branches", S) :
       /\ line' = l
       /\ brSeen' = Append(brSeen, l)
       /\ branches' = IF l # <<>> /\ BranchName(l) # <<>>
                        THEN Append(branches, BranchName(l))
                        ELSE branches
  /\ UNCHANGED <<pc, fileStatus, dirStatus, written, nLines, nIgn, ignListed,
                 history, pending, batch, out, singleQueries, unrolled>>
  /\ UNCHANGED <<rootVars, canRun, walkVars, mainVars, sizeVars, twiceVars, argVars>>

BranchLine == BranchLineFrom(BranchLines)

\* std::getline reaches the end of the branch listing.
BranchEnd ==
  /\ pc = "branches"
  /\ pc' = "status"
  /\ line' = <<>>
  /\ UNCHANGED <<fileStatus, dirStatus, written, nLines, nIgn, ignListed,
                 history, pending, batch, out, singleQueries, unrolled>>
  /\ UNCHANGED <<rootVars, restVars>>

\* --------------------------------------------------- status line parsing
IsUntrackedLine(l) == Len(l) >= 2 /\ SubSeq(l, 1, 2) = <<"?", "?">>

\* git.cpp:90-96 throws std::out_of_range from line.substr(3) when the line
\* is exactly "??".
ParseThrows(l) == IsUntrackedLine(l) /\ SubstrThrows(l, 3)

\* ParseInfo preferring the index code over the worktree code.
ParseInfoIndexFirst(l) ==
  IF IsUntrackedLine(l)
    THEN [DefaultInfo EXCEPT !.status = "U", !.x = SP, !.y = "?"]
    ELSE IF Len(l) >= 3
      THEN [DefaultInfo EXCEPT !.x = l[1], !.y = l[2],
                               !.status = IF l[1] # SP THEN l[1] ELSE l[2]]
      ELSE DefaultInfo

\* ParseInfo with the two markers of an untracked entry exchanged.
ParseInfoMarkersSwapped(l) ==
  IF IsUntrackedLine(l)
    THEN [DefaultInfo EXCEPT !.status = "U", !.x = "?", !.y = SP]
    ELSE IF Len(l) >= 3
      THEN [DefaultInfo EXCEPT !.x = l[1], !.y = l[2],
                               !.status = IF l[2] # SP THEN l[2] ELSE l[1]]
      ELSE DefaultInfo

\* The FileGitInfo built for a line (git.cpp:88-106).
ParseInfo(l) ==
  IF IsUntrackedLine(l)
    THEN [DefaultInfo EXCEPT !.status = "U", !.x = SP, !.y = "?"]
    ELSE IF Len(l) >= 3
      THEN [DefaultInfo EXCEPT !.x = l[1], !.y = l[2],
                               !.status = IF l[2] # SP THEN l[2] ELSE l[1]]
      ELSE DefaultInfo

\* RawPath keeping the name before the rename arrow.
RawPathSource(l) ==
  IF IsUntrackedLine(l)
    THEN Substr(l, 3)
    ELSE IF Len(l) >= 3
      THEN LET p == Substr(l, 3)
               arrow == FindArrow(p)
           IN IF arrow # 0 THEN SubSeq(p, 1, arrow - 1) ELSE p
      ELSE <<>>

\* The path taken from a line, before trimming (git.cpp:89-106).
RawPath(l) ==
  IF IsUntrackedLine(l)
    THEN Substr(l, 3)
    ELSE IF Len(l) >= 3
      THEN LET p == Substr(l, 3)
               arrow == FindArrow(p)
           IN IF arrow # 0 THEN Substr(p, (arrow - 1) + 4) ELSE p
      ELSE <<>>

ParsePath(l) == Trim(RawPath(l))

\* One iteration of the while loop of git.cpp:84-110 on the lines of S.
StatusLineFrom(S) ==
  /\ pc = "status"
  /\ nLines < MaxLines
  /\ \E l \in CapturedLines("status", S) :
       /\ line' = l
       /\ nLines' = nLines + 1
       /\ IF l = <<>>
            THEN /\ written' = {}
                 /\ UNCHANGED <<pc, fileStatus>>
            ELSE IF ParseThrows(l)
              THEN /\ pc' = "aborted"
                   /\ written' = {}
                   /\ UNCHANGED fileStatus
              ELSE IF ParsePath(l) # <<>>
                THEN /\ fileStatus' = Put(fileStatus, ParsePath(l), ParseInfo(l))
                     /\ written' = {ParsePath(l)}
                     /\ UNCHANGED pc
                ELSE /\ written' = {}
                     /\ UNCHANGED <<pc, fileStatus>>
  /\ UNCHANGED <<dirStatus, nIgn, ignListed, unrolled, history, pending,
                 batch, out, singleQueries>>
  /\ UNCHANGED <<rootVars, restVars>>

StatusLine == StatusLineFrom(PorcelainLines)

\* std::getline reaches the end of the status output.
StatusEnd ==
  /\ pc = "status"
  /\ pc' = "ignored"
  /\ line' = <<>>
  /\ written' = {}
  /\ nLines' = 0
  /\ UNCHANGED <<fileStatus, dirStatus, nIgn, ignListed, unrolled,
                 history, pending, batch, out, singleQueries>>
  /\ UNCHANGED <<rootVars, restVars>>

\* ------------------------------------------------------ ignored-file list
\* MarkIgnored leaving the display status of an existing record alone.
MarkIgnoredKeepsStatus(fs, p) ==
  IF p \notin DOMAIN fs
    THEN Put(fs, p, [DefaultInfo EXCEPT !.ignored = TRUE, !.status = "I"])
    ELSE [fs EXCEPT ![p].ignored = TRUE]

\* MarkIgnored flipping the flag of a record that exists.
MarkIgnoredToggles(fs, p) ==
  IF p \notin DOMAIN fs
    THEN Put(fs, p, [DefaultInfo EXCEPT !.ignored = TRUE, !.status = "I"])
    ELSE [fs EXCEPT ![p].ignored = ~fs[p].ignored, ![p].status = "I"]

\* The body of the loop of git.cpp:116-131 for a trimmed, non-empty line.
MarkIgnored(fs, p) ==
  IF p \notin DOMAIN fs
    THEN Put(fs, p, [DefaultInfo EXCEPT !.ignored = TRUE, !.status = "I"])
    ELSE [fs EXCEPT ![p].ignored = TRUE, ![p].status = "I"]

\* One iteration of the while loop of git.cpp:116-131 on the lines of S.
IgnoredLineFrom(S) ==
  /\ pc = "ignored"
  /\ nIgn < MaxIgn
  /\ \E l \in CapturedLines("ignored", S) :
       /\ line' = Trim(l)
       /\ nIgn' = nIgn + 1
       /\ ignListed' = ignListed \cup {l}
       /\ IF Trim(l) = <<>>
            THEN /\ written' = {}
                 /\ UNCHANGED fileStatus
            ELSE /\ fileStatus' = MarkIgnored(fileStatus, Trim(l))
                 /\ written' = {Trim(l)}
  /\ UNCHANGED <<pc, dirStatus, nLines, unrolled, history, pending, batch,
                 out, singleQueries>>
  /\ UNCHANGED <<rootVars, restVars>>

IgnoredLine == IgnoredLineFrom(IgnoredLines)

\* The end of the ignored list; filePaths is filled from the keys of
\* fileStatus (git.cpp:133-136).
IgnoredEnd ==
  /\ pc = "ignored"
  /\ pc' = "log"
  /\ pending' = DOMAIN fileStatus
  /\ history' \in Histories
  /\ written' = {}
  /\ line' = <<>>
  /\ nIgn' = 0
  /\ UNCHANGED <<fileStatus, dirStatus, nLines, ignListed, batch,
                 out, singleQueries, unrolled>>
  /\ UNCHANGED <<rootVars, restVars>>

\* -------------------------------------------------- author/date enrichment
\* The commit `git log -1 -- paths` prints: the latest one touching a path.
LastCommit(h, paths) ==
  LET ids == { IF p \in DOMAIN h THEN h[p] ELSE 0 : p \in paths }
  IN IF ids = {} THEN 0 ELSE CHOOSE c \in ids : \A d \in ids : d <= c

\* The text the query prints: nothing, or one newline-terminated line.
LogOutput(h, paths) ==
  IF LastCommit(h, paths) = 0
    THEN <<>>
    ELSE AuthorOf(LastCommit(h, paths)) \o <<"|">>
           \o DateOf(LastCommit(h, paths)) \o <<NL>>

\* std::string out = runCommandCapture(logcmd) (git.cpp:148, 153)
LogCapture(h, paths) == runCommandCapture("log", LogOutput(h, paths))

\* s.find(c): the 1-based index of the first occurrence, 0 for npos.
FindChar(s, c) ==
  LET hits == { i \in 1..Len(s) : s[i] = c }
  IN IF hits = {} THEN 0 ELSE CHOOSE i \in hits : \A j \in hits : i <= j

\* NeedsFallback falling back only on an empty or a multi-line output.
NeedsFallbackMultiLine(o) ==
  o = <<>> \/ \E i \in 1..(Len(o) - 1) : o[i] = NL

\* out.empty() || out.find('\n') != npos (git.cpp:150)
NeedsFallback(o) == o = <<>> \/ FindChar(o, NL) # 0

\* author = s.substr(0, pipe) (git.cpp:158, 176)
LogAuthor(s) == SubSeq(s, 1, FindChar(s, "|") - 1)

\* date = trim(s.substr(pipe + 1)), cut to 10 characters (git.cpp:159-163)
LogDate(s) ==
  LET date == Trim(Substr(s, (FindChar(s, "|") - 1) + 1))
  IN IF Len(date) >= 10 THEN SubSeq(date, 1, 10) ELSE date

\* The per-path fallback of git.cpp:151-172 for one path.
SingleInfo(h, info, p) ==
  LET singleout == LogCapture(h, {p})
  IN IF singleout # <<>> /\ FindChar(singleout, "|") # 0
       THEN [info EXCEPT !.author = LogAuthor(singleout),
                         !.date = LogDate(singleout)]
       ELSE info

\* One iteration of the batch loop of git.cpp:139-192 on the batch b.
EnrichBatch(fs, h, b) ==
  LET o == LogCapture(h, b)
  IN IF NeedsFallback(o)
       THEN [p \in DOMAIN fs |-> IF p \in b THEN SingleInfo(h, fs[p], p) ELSE fs[p]]
       ELSE IF o # <<>> /\ FindChar(o, "|") # 0
         THEN [p \in DOMAIN fs |->
                 IF p \in b
                   THEN [fs[p] EXCEPT !.author = LogAuthor(o), !.date = LogDate(o)]
                   ELSE fs[p]]
         ELSE fs

Min(a, b) == IF a < b THEN a ELSE b

LogBatch ==
  /\ pc = "log"
  /\ pending # {}
  /\ \E b \in SUBSET pending :
       /\ Cardinality(b) = Min(BatchSize, Cardinality(pending))
       /\ batch' = b
       /\ pending' = pending \ b
       /\ out' = LogCapture(history, b)
       /\ singleQueries' =
            IF NeedsFallback(LogCapture(history, b)) THEN Cardinality(b) ELSE 0
       /\ fileStatus' = EnrichBatch(fileStatus, history, b)
  /\ UNCHANGED <<pc, dirStatus, line, written, nLines, nIgn, ignListed,
                 history, unrolled>>
  /\ UNCHANGED <<rootVars, restVars>>

LogEnd ==
  /\ pc = "log"
  /\ pending = {}
  /\ pc' = "rollup"
  /\ unrolled' = DOMAIN fileStatus
  /\ UNCHANGED <<fileStatus, dirStatus, line, written, nLines, nIgn,
                 ignListed, history, pending, batch, out, singleQueries>>
  /\ UNCHANGED <<rootVars, restVars>>

\* ------------------------------------------------------- directory rollup
\* priority with the cases of M and A exchanged.
priorityAddedFirst(c) ==
  CASE c = "M" -> 4
    [] c = "A" -> 5
    [] c = "D" -> 3
    [] c = "R" -> 2
    [] c = "C" -> 1
    [] c = "U" -> 0
    [] c = "I" -> -2
    [] OTHER -> -1

\* The priority lambda of git.cpp:194-207.
priority(c) ==
  CASE c = "M" -> 5
    [] c = "A" -> 4
    [] c = "D" -> 3
    [] c = "R" -> 2
    [] c = "C" -> 1
    [] c = "U" -> 0
    [] c = "I" -> -2
    [] OTHER -> -1

\* The while (true) loop of git.cpp:215-227 for one file.
RECURSIVE RollupWalk(_, _, _)
RollupWalk(ds, fullPath, st) ==
  LET pos == FindLastSlash(fullPath)
      up == IF pos = 0 THEN <<>> ELSE SubSeq(fullPath, 1, pos - 1)
      ds2 == IF up \notin DOMAIN ds \/ priority(st) > priority(ds[up])
               THEN Put(ds, up, st)
               ELSE ds
  IN IF up = <<>> THEN ds2 ELSE RollupWalk(ds2, up, st)

\* One iteration of the for loop of git.cpp:210-228.
RollupFile ==
  /\ pc = "rollup"
  /\ \E f \in unrolled :
       /\ dirStatus' = RollupWalk(dirStatus, f, fileStatus[f].status)
       /\ unrolled' = unrolled \ {f}
  /\ UNCHANGED <<pc, fileStatus, line, written, nLines, nIgn, ignListed,
                 history, pending, batch, out, singleQueries>>
  /\ UNCHANGED <<rootVars, restVars>>

\* return true (git.cpp:230)
RollupEnd ==
  /\ pc = "rollup"
  /\ unrolled = {}
  /\ pc' = "done"
  /\ UNCHANGED gitVars
  /\ UNCHANGED <<rootVars, restVars>>

\* The rollup loop run once more on the same fileStatus, from an empty
\* dirStatus: the map is free to yield its entries in another order.
RollupAgain ==
  /\ pc = "done"
  /\ earlier = <<>>
  /\ earlier' = <<[fileStatus |-> fileStatus, dirStatus |-> dirStatus]>>
  /\ dirStatus' = EmptyMap
  /\ unrolled' = DOMAIN fileStatus
  /\ pc' = "rollup"
  /\ UNCHANGED <<fileStatus, line, written, nLines, nIgn, ignListed, history,
                 pending, batch, out, singleQueries>>
  /\ UNCHANGED <<rootVars, brVars, canRun, walkVars, mainVars, sizeVars, script, argVars>>

\* ------------------------------------------------- get_git_status, twice
\* The place of a key in the order in which the unordered_map yields its keys.
Pos(rank, p) == CHOOSE i \in 1..Len(rank) : rank[i] = p

\* The n keys of S the map yields first.
FirstByRank(S, rank, n) ==
  { p \in S : Cardinality({ q \in S : Pos(rank, q) < Pos(rank, p) }) < n }

\* The steps of get_git_status when the commands print the lines of the
\* script and the map iterates in the order of the script.
ScriptedStatusLine ==
  /\ nLines < Len(script.status)
  /\ StatusLineFrom({script.status[nLines + 1]})

ScriptedStatusEnd ==
  /\ nLines = Len(script.status)
  /\ StatusEnd

ScriptedIgnoredLine ==
  /\ nIgn < Len(script.ignored)
  /\ IgnoredLineFrom({script.ignored[nIgn + 1]})

ScriptedIgnoredEnd ==
  /\ nIgn = Len(script.ignored)
  /\ IgnoredEnd
  /\ history' = script.history

\* filePaths holds the keys in the order of the map (git.cpp:133-136) and a
\* batch is the next BATCH_SIZE of them (git.cpp:139-140).
ScriptedLogBatch ==
  /\ LogBatch
  /\ batch' = FirstByRank(pending, script.rank,
                          Min(BatchSize, Cardinality(pending)))

\* for (const auto &pair : fileStatus) (git.cpp:210)
ScriptedRollupFile ==
  /\ RollupFile
  /\ unrolled' = unrolled \ FirstByRank(unrolled, script.rank, 1)

\* A second call of get_git_status with the same tool outputs: on new, empty
\* tables, or on the tables the first call has filled, which get_git_status
\* does not clear.
RunAgain ==
  /\ pc = "done"
  /\ earlier = <<>>
  /\ earlier' = <<[fileStatus |-> fileStatus, dirStatus |-> dirStatus]>>
  /\ fileStatus' = IF script.fresh THEN EmptyMap ELSE fileStatus
  /\ dirStatus' = IF script.fresh THEN EmptyMap ELSE dirStatus
  /\ pc' = "status"
  /\ UNCHANGED <<line, written, nLines, nIgn, ignListed, history,
                 pending, batch, out, singleQueries, unrolled>>
  /\ UNCHANGED <<rootVars, brVars, canRun, walkVars, mainVars, sizeVars, script, argVars>>

\* ------------------------------------------------------- argument parsing
\* The arguments of the model: the two forms of --ignore, lists to follow
\* "--ignore", two other options, a number and a directory name.
A_ignore == <<"-", "-", "i", "g", "n", "o", "r", "e">>
A_ignoreEq == <<"-", "-", "i", "g", "n", "o", "r", "e", "=">>
A_all == <<"-", "-", "a", "l", "l">>
A_depth == <<"-", "-", "d", "e", "p", "t", "h">>
A_one == <<"1">>
A_t == <<"t">>
Csv_ab == <<"a", ",", SP, "b">>
Csv_c == <<",", "c", SP, ",">>
Csv_blank == <<SP>>

Args ==
  { A_ignore, A_ignoreEq, A_ignoreEq \o Csv_ab, A_ignoreEq \o Csv_c,
    A_ignoreEq \o Csv_blank, Csv_ab, Csv_c, A_all, A_depth, A_one, A_t }

\* std::getline(ss, token, ','): the tokens of the input, none after a final
\* comma and none for an empty input.
RECURSIVE SplitCommas(_)
SplitCommas(input) ==
  IF input = <<>> THEN <<>>
  ELSE LET comma == FindChar(input, ",")
       IN IF comma = 0 THEN <<input>>
          ELSE <<SubSeq(input, 1, comma - 1)>> \o SplitCommas(Substr(input, comma))

\* The loop body of utils.cpp:195-203 over the tokens.
RECURSIVE TrimmedTokens(_)
TrimmedTokens(tokens) ==
  IF tokens = <<>> THEN <<>>
  ELSE IF FirstNotOf(Head(tokens)) = 0 THEN TrimmedTokens(Tail(tokens))
  ELSE <<SubSeq(Head(tokens), FirstNotOf(Head(tokens)), LastNotOf(Head(tokens)))>>
         \o TrimmedTokens(Tail(tokens))

\* Mutant of parse_ignore_patterns: the list is not cleared.
parse_ignore_patternsAppending(input, pats) ==
  pats \o TrimmedTokens(SplitCommas(input))

\* parse_ignore_patterns (utils.cpp:189-205): the new value of patterns.
parse_ignore_patterns(input, pats) == TrimmedTokens(SplitCommas(input))

\* arg.rfind("--ignore=", 0) == 0
StartsWithIgnoreEq(arg) ==
  Len(arg) >= Len(A_ignoreEq) /\ SubSeq(arg, 1, Len(A_ignoreEq)) = A_ignoreEq

\* std::stoi throws std::invalid_argument on an argument that is no number.
StoiThrows(arg) == arg # A_one

\* The elements of a vector, as the set the walker tests membership in.
Range(seq) == { seq[i] : i \in 1..Len(seq) }

\* One iteration of the loop of main.cpp:50-63.
ParseArg ==
  /\ pc = "args"
  /\ argi <= Len(argv)
  /\ LET arg == argv[argi]
         hasNext == argi + 1 <= Len(argv)
         newPatterns ==
           IF StartsWithIgnoreEq(arg)
             THEN parse_ignore_patterns(Substr(arg, 9), patterns)
           ELSE IF arg = A_ignore /\ hasNext
             THEN parse_ignore_patterns(argv[argi + 1], patterns)
           ELSE patterns
         consumed == arg \in {A_ignore, A_depth} /\ hasNext
         throws == arg = A_depth /\ hasNext /\ StoiThrows(argv[argi + 1])
     IN /\ pc' = IF throws THEN "terminated" ELSE pc
        /\ argi' = IF consumed THEN argi + 2 ELSE argi + 1
        /\ patterns' = newPatterns
        /\ opts' = [opts EXCEPT
                      !.ignorePatterns = Range(newPatterns),
                      !.showHidden = IF arg = A_all THEN TRUE ELSE @,
                      !.maxDepth = IF arg = A_depth /\ hasNext /\ ~throws
                                     THEN 1 ELSE @]
        /\ target' = IF StartsWithIgnoreEq(arg)
                          \/ arg \in {A_ignore, A_all, A_depth}
                       THEN target
                       ELSE RelPath(<<arg>>)
  /\ UNCHANGED argv
  /\ UNCHANGED <<present, denied, listed, entries>>
  /\ UNCHANGED <<cwd, gitDirs, cur, repo_root>>
  /\ UNCHANGED <<gitVars, brVars, canRun, mainVars, sizeVars, twiceVars>>

\* The loop of main.cpp:50-63 ends.
ParseEnd ==
  /\ pc = "args"
  /\ argi > Len(argv)
  /\ pc' = "parsed"
  /\ UNCHANGED <<gitVars, rootVars, restVars>>

\* ------------------------------------------------------ filesystem walker
\* File names, and the entries that may exist under the target directory, each
\* named by its path from the target.
N_s == <<"s">>
N_a == <<"a">>
N_b == <<"b">>
N_c == <<"c">>
N_bt == <<"b", ".", "t">>
N_h == <<".", "h">>
N_L == <<"L">>

Universe ==
  { <<N_s>>, <<N_s, N_a>>, <<N_s, N_a, N_b>>, <<N_s, N_c>>,
    <<N_a>>, <<N_bt>>, <<N_h>>, <<N_L>> }

\* What each entry is: s and s/a are directories, L is a symbolic link to an
\* empty directory outside the tree, the others are regular files.
KindOf(p) ==
  IF p \in { <<>>, <<N_s>>, <<N_s, N_a>> } THEN "dir"
  ELSE IF p = <<N_L>> THEN "link"
  ELSE "file"

\* The trees the target directory may hold.
Trees ==
  { Universe,
    { <<N_s>>, <<N_a>>, <<N_bt>> },
    Universe \ { <<N_L>>, <<N_h>> },
    { <<N_a>>, <<N_h>>, <<N_L>> },
    {} }

\* The values of --ignore: none, an extension, a file name, a directory name.
PatternSets == { {}, {<<"t">>}, {N_c, N_bt}, {N_s} }

\* --depth: unbounded (-1) or a bound.
Depths == {-1, 0, 1}

\* entry.is_directory() follows a symbolic link; entry.is_symlink() does not.
IsDirectory(p) == KindOf(p) \in {"dir", "link"}
IsSymlink(p) == KindOf(p) = "link"
IsRegularFile(p) == KindOf(p) = "file"

\* p.filename()
Filename(p) == p[Len(p)]

\* s.rfind('.'): the 1-based index of the last period, 0 for npos.
FindLastDot(n) ==
  LET hits == { i \in 1..Len(n) : n[i] = "." }
  IN IF hits = {} THEN 0 ELSE CHOOSE i \in hits : \A j \in hits : j <= i

\* path::extension() of a file name: from the last period on, where a leading
\* period ("." of ".profile") starts no extension and "." and ".." have none.
Extension(n) ==
  IF n = <<".">> \/ n = <<".", ".">> \/ FindLastDot(n) <= 1
    THEN <<>>
    ELSE SubSeq(n, FindLastDot(n), Len(n))

\* Mutant of should_ignore: only the extension is compared.
should_ignoreExtensionOnly(p, o) ==
  LET ext == Extension(Filename(p))
  IN ext # <<>> /\ Substr(ext, 1) \in o.ignorePatterns

\* should_ignore (utils.cpp:104-123)
should_ignore(p, o) ==
  IF o.ignorePatterns = {} THEN FALSE
  ELSE LET filename == Filename(p)
           ext == Extension(filename)
           bare == IF ext # <<>> /\ ext[1] = "." THEN Substr(ext, 1) ELSE ext
       IN \/ ext # <<>> /\ bare \in o.ignorePatterns
          \/ filename \in o.ignorePatterns

\* The code of a character, for operator< on strings.
Ord(c) ==
  CASE c = "." -> 46
    [] c = "L" -> 76
    [] c = "a" -> 97
    [] c = "b" -> 98
    [] c = "c" -> 99
    [] c = "h" -> 104
    [] c = "s" -> 115
    [] c = "t" -> 116
    [] OTHER -> 0

\* a < b on two file names
RECURSIVE StringLess(_, _)
StringLess(a, b) ==
  IF b = <<>> THEN FALSE
  ELSE IF a = <<>> THEN TRUE
  ELSE IF Ord(Head(a)) # Ord(Head(b)) THEN Ord(Head(a)) < Ord(Head(b))
  ELSE StringLess(Tail(a), Tail(b))

\* Mutant of the comparator: file names only.
EntryLessByName(a, b) == StringLess(Filename(a), Filename(b))

\* The comparator of std::sort (utils.cpp:151-159).
EntryLess(a, b) ==
  IF IsDirectory(a) # IsDirectory(b)
    THEN IsDirectory(a)
    ELSE StringLess(Filename(a), Filename(b))

\* std::sort(entries.begin(), entries.end(), EntryLess) on the entries of S.
RECURSIVE SortEntries(_)
SortEntries(S) ==
  IF S = {} THEN <<>>
  ELSE LET first == CHOOSE x \in S : \A y \in S \ {x} : EntryLess(x, y)
       IN <<first>> \o SortEntries(S \ {first})

\* The children fs::directory_iterator(path, skip_permission_denied) yields:
\* none, and no error, for a directory that may not be opened.
ChildrenOf(d) ==
  { p \in present : Len(p) = Len(d) + 1 /\ SubSeq(p, 1, Len(d)) = d }

DirectoryIterator(d) == IF d \in denied THEN {} ELSE ChildrenOf(d)

\* The entries the loop of utils.cpp:130-145 keeps.
Kept(d, o) ==
  { p \in DirectoryIterator(d) :
      /\ ~(~o.showHidden /\ Filename(p) # <<>> /\ Filename(p)[1] = ".")
      /\ ~should_ignore(p, o)
      /\ ~(~o.followSymlinks /\ IsSymlink(p)) }

\* get_filtered_entries (utils.cpp:125-162)
get_filtered_entries(d, o) == SortEntries(Kept(d, o))

\* The directories under the target, the target (<<>>) included.
DirsPresent == { p \in present \cup {<<>>} : KindOf(p) = "dir" }

\* A call of get_filtered_entries on a directory of the tree.
ListEntries ==
  /\ pc = "walk"
  /\ \E d \in DirsPresent :
       /\ listed' = <<d>>
       /\ entries' = get_filtered_entries(d, opts)
  /\ UNCHANGED <<pc, opts, present, denied>>
  /\ UNCHANGED <<gitVars, rootVars, brVars, canRun, mainVars, sizeVars, twiceVars, argVars>>

\* -------------------------------------------------------------- human_size
\* A uintmax_t is held as its digits in base 1024, the lowest first, so that
\* sizes up to the P range stay exact; <<>> is 0.
Base == 1024

\* The digits of a small number.
RECURSIVE ToDigits(_)
ToDigits(n) == IF n = 0 THEN <<>> ELSE <<n % Base>> \o ToDigits(n \div Base)

\* The number a short digit list stands for.
RECURSIVE Value(_)
Value(d) == IF d = <<>> THEN 0 ELSE Head(d) + Base * Value(Tail(d))

IsZero(d) == \A i \in 1..Len(d) : d[i] = 0

\* d / 1024^k, the fraction dropped
Shifted(d, k) == SubSeq(d, k + 1, Len(d))

\* The k lowest digits of d: the fraction of d / 1024^k in units of 1024^-k.
Fraction(d, k) == [i \in 1..k |-> IF i <= Len(d) THEN d[i] ELSE 0]

Units == <<"B", "K", "M", "G", "T", "P">>

\* The loop of utils.cpp:84-87, dividing by 1024.0 being exact on a double:
\* dsize >= 1024.0 holds while a digit above the lowest is not zero.
RECURSIVE UnitIndex(_, _)
UnitIndex(d, k) ==
  IF ~IsZero(Shifted(d, k + 1)) /\ k < Len(Units) - 1
    THEN UnitIndex(d, k + 1)
    ELSE k

\* Ten times a fraction: the whole tenths and the fraction left.
RECURSIVE TimesTen(_, _)
TimesTen(f, carry) ==
  IF f = <<>> THEN [digits |-> <<>>, carry |-> carry]
  ELSE LET v == f[1] * 10 + carry
           rest == TimesTen(Tail(f), v \div Base)
       IN [digits |-> <<v % Base>> \o rest.digits, carry |-> rest.carry]

\* A fraction against one half: "above", "half" or "below".
AgainstHalf(f) ==
  IF f = <<>> THEN "below"
  ELSE IF f[Len(f)] > Base \div 2 THEN "above"
  ELSE IF f[Len(f)] < Base \div 2 THEN "below"
  ELSE IF IsZero(SubSeq(f, 1, Len(f) - 1)) THEN "half" ELSE "above"

\* The tenths "%.1f" prints for a fraction, rounded to nearest and to even on
\* a tie; 10 when the rounding carries into the integer part.
Tenths(f) ==
  LET t == TimesTen(f, 0)
      up == \/ AgainstHalf(t.digits) = "above"
            \/ AgainstHalf(t.digits) = "half" /\ t.carry % 2 = 1
  IN IF up THEN t.carry + 1 ELSE t.carry

DigitChars == <<"0", "1", "2", "3", "4", "5", "6", "7", "8", "9">>

\* The decimal digits of a number.
RECURSIVE Decimal(_)
Decimal(n) ==
  IF n < 10 THEN <<DigitChars[n + 1]>>
  ELSE Decimal(n \div 10) \o <<DigitChars[(n % 10) + 1]>>

\* human_size (utils.cpp:74-92)
human_size(d) ==
  IF IsZero(d) THEN <<"0", "B">>
  ELSE LET unit_index == UnitIndex(d, 0)
           whole == Value(Shifted(d, unit_index))
           tenths == Tenths(Fraction(d, unit_index))
       IN Decimal(IF tenths = 10 THEN whole + 1 ELSE whole)
          \o <<".">>
          \o <<DigitChars[(tenths % 10) + 1]>>
          \o <<Units[unit_index + 1]>>

\* The sizes human_size is called on: below 2^53, where the conversion to
\* double is exact.
SizeDigits == {0, 1, 256, 512, 1023}
Sizes ==
  { d \in [1..6 -> SizeDigits] : d[6] \in {0, 1} }

\* A call of human_size.
HumanSize ==
  /\ pc = "size"
  /\ rendered = <<>>
  /\ rendered' = <<human_size(size)>>
  /\ UNCHANGED <<pc, size>>
  /\ UNCHANGED <<gitVars, rootVars, brVars, canRun, walkVars, mainVars, twiceVars, argVars>>

\* ------------------------------------------------------------- print_tree
\* The two indentations and the two connectors print_tree writes
\* (printer.cpp:35, 61), the box-drawing characters written as ASCII.
Pipe == "|   "
Blank == "    "
Tee == "|-- "
Elbow == "+-- "

\* The directory a symbolic link of the tree resolves to.
LinkTarget == << <<"e">> >>

\* The canonical absolute path of the entry p of the target directory, as a
\* list of file names.
Canonical(p) ==
  IF p # <<>> /\ IsSymlink(p)
    THEN LinkTarget
    ELSE [i \in 1..Len(Resolve(target, cwd)) |-> <<Resolve(target, cwd)[i]>>] \o p

CommonPrefix(a, b) ==
  CHOOSE k \in 0..Len(a) :
    /\ k <= Len(b)
    /\ SubSeq(a, 1, k) = SubSeq(b, 1, k)
    /\ \A m \in (k + 1)..Len(a) : m <= Len(b) => SubSeq(a, 1, m) # SubSeq(b, 1, m)

\* a.lexically_relative(b) on two canonical paths
LexicallyRelative(a, b) ==
  LET k == CommonPrefix(a, b)
      rel == [i \in 1..(Len(b) - k) |-> <<".", ".">>] \o SubSeq(a, k + 1, Len(a))
  IN IF rel = <<>> THEN << <<".">> >> ELSE rel

\* p.generic_string(): the file names joined by '/'
RECURSIVE GenericString(_)
GenericString(names) ==
  IF names = <<>> THEN <<>>
  ELSE IF Len(names) = 1 THEN names[1]
  ELSE names[1] \o <<"/">> \o GenericString(Tail(names))

\* normalize_path (utils.cpp:94-102): trailing slashes are removed.
RECURSIVE normalize_path(_)
normalize_path(res) ==
  IF res # <<>> /\ res[Len(res)] = "/"
    THEN normalize_path(SubSeq(res, 1, Len(res) - 1))
    ELSE res

\* The key print_tree looks an entry up by (printer.cpp:51-53, 66-68, 108-110).
RelKey(p, root) ==
  LET rootAbs == [i \in 1..Len(Resolve(root, cwd)) |-> <<Resolve(root, cwd)[i]>>]
      key == normalize_path(GenericString(LexicallyRelative(Canonical(p), rootAbs)))
  IN IF key = <<".">> THEN <<>> ELSE key

\* The colour of a file's name (printer.cpp:72-90).
NameColor(fi) ==
  IF fi.ignored THEN "gray"
  ELSE IF fi.x # SP /\ fi.x # "?" THEN "yellow"
  ELSE IF fi.y # SP /\ fi.y # "?" THEN "red"
  ELSE "green"

\* The colour of a file's status suffix (printer.cpp:114-122).
SuffixColor(fi) ==
  IF fi.ignored THEN "gray"
  ELSE IF fi.x # SP /\ fi.x # "?" THEN "yellow"
  ELSE IF fi.y # SP /\ fi.y # "?" THEN "red"
  ELSE "gray"

\* The author/date text of printer.cpp:124-134; empty for none.
Meta(fi) ==
  IF fi.author # <<>>
    THEN IF fi.date # <<>> THEN fi.author \o <<",", SP>> \o fi.date ELSE fi.author
    ELSE fi.date

\* The line of a directory entry (printer.cpp:38-58).  An optional part of a
\* line is <<>> when it is not written and <<v>> when v is.
DirLine(entry, o, sizes, root, dsPtr, hasGitInfo, depth, prefix, isLast) ==
  [path |-> entry, depth |-> depth, prefix |-> prefix,
   connector |-> IF isLast THEN Elbow ELSE Tee,
   name |-> Filename(entry), isDir |-> TRUE, color |-> "blue",
   du |-> IF o.diskUsage /\ entry \in DOMAIN sizes
            THEN <<human_size(ToDigits(sizes[entry]))>> ELSE <<>>,
   status |-> IF hasGitInfo /\ RelKey(entry, root) \in DOMAIN dsPtr[1]
                THEN <<dsPtr[1][RelKey(entry, root)]>> ELSE <<>>,
   suffixColor |-> "gray",
   meta |-> <<>>]

\* The line of any other entry (printer.cpp:63-135).
FileLine(entry, o, root, fsPtr, hasGitInfo, depth, prefix, isLast) ==
  LET key == IF hasGitInfo THEN RelKey(entry, root) ELSE <<>>
      known == fsPtr # <<>> /\ key # <<>> /\ key \in DOMAIN fsPtr[1]
      found == hasGitInfo /\ RelKey(entry, root) \in DOMAIN fsPtr[1]
      fi == fsPtr[1][RelKey(entry, root)]
  IN [path |-> entry, depth |-> depth, prefix |-> prefix,
      connector |-> IF isLast THEN Elbow ELSE Tee,
      name |-> Filename(entry), isDir |-> FALSE,
      color |-> IF known THEN NameColor(fsPtr[1][key]) ELSE "green",
      du |-> <<>>,
      status |-> IF found THEN <<fi.status>> ELSE <<>>,
      suffixColor |-> IF found THEN SuffixColor(fi) ELSE "gray",
      meta |-> IF found /\ Meta(fi) # <<>> THEN <<Meta(fi)>> ELSE <<>>]

\* Mutant of the indentation: the two segments exchanged.
SegmentSwapped(isLast) == IF isLast THEN Pipe ELSE Blank

\* isLast ? "    " : "|   " (printer.cpp:61)
Segment(isLast) == IF isLast THEN Blank ELSE Pipe

\* Mutant of the depth test: one level too few.
DepthExceededEarly(o, depth) == o.maxDepth # -1 /\ depth >= o.maxDepth

\* opts.maxDepth != -1 && depth > opts.maxDepth (printer.cpp:21)
DepthExceeded(o, depth) == o.maxDepth # -1 /\ depth > o.maxDepth

\* print_tree (printer.cpp:14-139): the lines written, in order.  Null
\* pointers are <<>>, a pointer to a table t is <<t>>.
RECURSIVE print_tree(_, _, _, _, _, _, _, _)
RECURSIVE PrintEntries(_, _, _, _, _, _, _, _, _)
print_tree(path, o, sizes, root, fsPtr, dsPtr, depth, prefix) ==
  IF DepthExceeded(o, depth) THEN <<>>
  ELSE PrintEntries(get_filtered_entries(path, o), 1, o, sizes, root, fsPtr,
                    dsPtr, depth, prefix)

\* The loop of printer.cpp:28-137 from the i-th entry on.
PrintEntries(ents, i, o, sizes, root, fsPtr, dsPtr, depth, prefix) ==
  IF i > Len(ents) THEN <<>>
  ELSE
    LET entry == ents[i]
        isLast == i = Len(ents)
        hasGitInfo == fsPtr # <<>> /\ dsPtr # <<>> /\ root # EmptyPath
    IN IF IsDirectory(entry)
         THEN <<DirLine(entry, o, sizes, root, dsPtr, hasGitInfo, depth, prefix,
                        isLast)>>
              \o print_tree(entry, o, sizes, root, fsPtr, dsPtr, depth + 1,
                            Append(prefix, Segment(isLast)))
              \o PrintEntries(ents, i + 1, o, sizes, root, fsPtr, dsPtr, depth,
                              prefix)
         ELSE <<FileLine(entry, o, root, fsPtr, hasGitInfo, depth, prefix, isLast)>>
              \o PrintEntries(ents, i + 1, o, sizes, root, fsPtr, dsPtr, depth,
                              prefix)

\* main.cpp:90-92: the tree is printed, with the repository root and the two
\* tables only when get_git_status returned true.
PrintTree ==
  /\ pc = "print"
  /\ output' = print_tree(<<>>, opts, dirSizes,
                          IF gitOk THEN repo_root ELSE EmptyPath,
                          IF gitOk THEN <<fileStatus>> ELSE <<>>,
                          IF gitOk THEN <<dirStatus>> ELSE <<>>,
                          0, <<>>)
  /\ pc' = "stats"
  /\ UNCHANGED <<gitOk, dirSizes, banner, diag, stats>>
  /\ UNCHANGED <<gitVars, rootVars, brVars, canRun, walkVars, sizeVars, twiceVars, argVars>>

\* -------------------------------------------------------- compute_dir_size
\* The bytes of each regular file of the tree.
Content(p) ==
  IF p = <<N_bt>> THEN <<"x", NL, "y", NL>>
  ELSE IF p = <<N_s, N_a, N_b>> THEN <<"a", "b", "c">>
  ELSE IF p = <<N_s, N_c>> THEN <<"z", NL>>
  ELSE IF p = <<N_h>> THEN <<"h", NL, "i">>
  ELSE <<>>

\* entry.file_size()
FileSize(p) == Len(Content(p))

RECURSIVE SumSizes(_)
SumSizes(S) ==
  IF S = {} THEN 0
  ELSE LET p == CHOOSE q \in S : TRUE
       IN FileSize(p) + SumSizes(S \ {p})

\* fs::recursive_directory_iterator has no skip_permission_denied: its
\* constructor or its increment throws filesystem_error at a directory that
\* may not be opened, outside the try block of utils.cpp:173-182.
IteratorThrows ==
  \E d \in denied : d \in present /\ KindOf(d) = "dir"

\* total of utils.cpp:166-183 when the iteration completes
TotalSize == SumSizes({ p \in present : IsRegularFile(p) })

\* main.cpp:86-88: compute_dir_size(target, opts, dirSizes) under --du.  An
\* exception leaving main ends the program by std::terminate.
DiskUsage ==
  /\ pc = "walk"
  /\ IF ~opts.diskUsage
       THEN /\ pc' = "print"
            /\ UNCHANGED dirSizes
       ELSE IF IteratorThrows
         THEN /\ pc' = "terminated"
              /\ UNCHANGED dirSizes
         ELSE /\ dirSizes' = Put(dirSizes, <<>>, TotalSize)
              /\ pc' = "print"
  /\ UNCHANGED <<gitOk, output, banner, diag, stats>>
  /\ UNCHANGED <<gitVars, rootVars, brVars, canRun, walkVars, sizeVars, twiceVars, argVars>>

\* --------------------------------------------------- compute_project_stats
\* std::count(begin, end, '\n') on the bytes of a file
CountNewlines(text) == Cardinality({ i \in 1..Len(text) : text[i] = NL })

\* Mutant of the line count: the newline characters alone.
LinesAddedNewlinesOnly(p) ==
  IF p \in denied THEN 0 ELSE CountNewlines(Content(p))

\* What utils.cpp:221-226 adds to lineCount for a regular file: nothing when
\* the stream cannot be opened.
LinesAdded(p) ==
  IF p \in denied THEN 0 ELSE CountNewlines(Content(p)) + 1

\* compute_project_stats (utils.cpp:207-234): fileCount and lineCount.
RECURSIVE compute_project_stats(_, _)
RECURSIVE StatsEntries(_, _, _)
compute_project_stats(path, o) == StatsEntries(get_filtered_entries(path, o), 1, o)

\* The loop of utils.cpp:213-233 from the i-th entry on.
StatsEntries(ents, i, o) ==
  IF i > Len(ents) THEN [files |-> 0, lines |-> 0]
  ELSE
    LET entry == ents[i]
        rest == StatsEntries(ents, i + 1, o)
        own == IF IsDirectory(entry) /\ (~IsSymlink(entry) \/ o.followSymlinks)
                 THEN compute_project_stats(entry, o)
               ELSE IF IsRegularFile(entry)
                 THEN [files |-> 1, lines |-> LinesAdded(entry)]
               ELSE [files |-> 0, lines |-> 0]
    IN [files |-> own.files + rest.files, lines |-> own.lines + rest.lines]

\* main.cpp:94-100: the statistics line under --stats, then return 0.
ProjectStats ==
  /\ pc = "stats"
  /\ stats' = IF opts.showStats THEN <<compute_project_stats(<<>>, opts)>> ELSE stats
  /\ pc' = "exit"
  /\ UNCHANGED <<gitOk, dirSizes, output, banner, diag>>
  /\ UNCHANGED <<gitVars, rootVars, brVars, canRun, walkVars, sizeVars, twiceVars, argVars>>

\* ------------------------------------------------------------ main, --git
\* The line main writes to std::cerr when get_git_status returns false.
NotARepository == "Not a git repository (or any parent). Ignoring --git."

\* Mutant of the warning: written once for the target and once for its parent.
WarningTwice(d) == d \o <<NotARepository, NotARepository>>

\* main.cpp:73-74
Warning(d) == Append(d, NotARepository)

\* git.cpp:59-60 and main.cpp:72-74: findRepoRoot returned false, so did
\* get_git_status, and main writes its warning.
GitFailed ==
  /\ pc = "rootFailed"
  /\ gitOk' = FALSE
  /\ diag' = Warning(diag)
  /\ pc' = "walk"
  /\ UNCHANGED <<dirSizes, output, banner, stats>>
  /\ UNCHANGED <<gitVars, rootVars, brVars, canRun, walkVars, sizeVars, twiceVars, argVars>>

\* git.cpp:62: findRepoRoot returned true and get_git_status goes on.
GitFound ==
  /\ pc = "rootFound"
  /\ pc' = "branches"
  /\ UNCHANGED <<gitVars, rootVars, restVars>>

\* git.cpp:230 and main.cpp:72-84: get_git_status returned true and main
\* writes the "Branches: " line when there are branches.
GitDone ==
  /\ pc = "done"
  /\ gitOk' = TRUE
  /\ banner' = IF branches # <<>> THEN <<branches>> ELSE banner
  /\ pc' = "walk"
  /\ UNCHANGED <<dirSizes, output, diag, stats>>
  /\ UNCHANGED <<gitVars, rootVars, brVars, canRun, walkVars, sizeVars, twiceVars, argVars>>

\* ------------------------------------------------------ the specification
\* main passes empty tables (main.cpp:66-72); findRepoRoot has succeeded.
InitTables ==
  /\ fileStatus = EmptyMap
  /\ dirStatus = EmptyMap
  /\ line = <<>>
  /\ written = {}
  /\ nLines = 0
  /\ nIgn = 0
  /\ ignListed = {}
  /\ history = [p \in AllPaths |-> 0]
  /\ pending = {}
  /\ batch = {}
  /\ out = <<>>
  /\ singleQueries = 0
  /\ unrolled = {}

\* get_git_status after findRepoRoot has returned true for the target /r.
InitRoot ==
  /\ target = AbsPath(<<"r">>)
  /\ cwd = <<>>
  /\ gitDirs = {<<"r">>}
  /\ cur = AbsPath(<<"r">>)
  /\ repo_root = AbsPath(<<"r">>)

\* Options as main builds them with no flags given (options.h:12-22), and
\* an empty target directory.
DefaultOptions ==
  [maxDepth |-> -1, showHidden |-> FALSE, followSymlinks |-> FALSE,
   ignorePatterns |-> {}, diskUsage |-> FALSE, showStats |-> FALSE]

InitWalk ==
  /\ opts = DefaultOptions
  /\ present = {}
  /\ denied = {}
  /\ listed = <<>>
  /\ entries = <<>>

\* main before its first output.
InitMain ==
  /\ gitOk = FALSE
  /\ dirSizes = EmptyMap
  /\ output = <<>>
  /\ banner = <<>>
  /\ diag = <<>>
  /\ stats = <<>>

\* The output lines of the git commands of a run, the history `git log` reads
\* and the order in which the unordered_map yields its keys.
EmptyScript ==
  [status |-> <<>>, ignored |-> <<>>, history |-> [p \in AllPaths |-> 0],
   rank |-> <<>>, fresh |-> TRUE]

\* main called with no arguments.
InitArgs ==
  /\ argv = <<>>
  /\ argi = 1
  /\ patterns = <<>>

\* No earlier run.
InitTwice ==
  /\ script = EmptyScript
  /\ earlier = <<>>

\* No call of human_size yet.
InitSize ==
  /\ size = <<>>
  /\ rendered = <<>>

\* No branch line read yet; every command can be started.
InitRest ==
  /\ branches = <<>>
  /\ brSeen = <<>>
  /\ canRun = Steps
  /\ InitWalk
  /\ InitMain
  /\ InitTwice
  /\ InitArgs
  /\ InitSize

Next ==
  \/ StatusLine
  \/ StatusEnd
  \/ IgnoredLine
  \/ IgnoredEnd
  \/ LogBatch
  \/ LogEnd
  \/ RollupFile
  \/ RollupEnd

Init == pc = "status" /\ InitTables /\ InitRoot /\ InitRest

Spec == Init /\ [][Next]_vars

\* findRepoRoot alone, from any target, working directory and set of
\* repositories of the model's filesystem.
RootInit ==
  /\ pc = "root"
  /\ InitTables
  /\ target \in Targets
  /\ cwd \in Cwds
  /\ gitDirs \in SUBSET Dirs
  /\ cur = target
  /\ repo_root = EmptyPath
  /\ InitRest

RootNext == FindRepoRootStep

SpecRoot == RootInit /\ [][RootNext]_vars

\* Branch enumeration alone (git.cpp:63-76), after findRepoRoot has succeeded.
BranchInit == pc = "branches" /\ InitTables /\ InitRoot /\ InitRest

BranchNext == BranchLine \/ BranchEnd

SpecBranches == BranchInit /\ [][BranchNext]_vars

\* get_git_status from the branch listing to the rollup, where any of its
\* commands may fail to start, on a few lines per command.
FewBranchLines == { <<"*", SP, "m">> }
FewStatusLines ==
  { <<SP, "M", SP>> \o P_a, <<"?", "?", SP>> \o P_sc, <<"?", "?">> }
FewIgnoredLines == { P_a, P_si \o <<CR>> }

FailInit ==
  /\ pc = "branches"
  /\ InitTables
  /\ InitRoot
  /\ branches = <<>>
  /\ brSeen = <<>>
  /\ canRun \in SUBSET Steps
  /\ InitWalk
  /\ InitMain
  /\ InitTwice
  /\ InitArgs
  /\ InitSize

FailNext ==
  \/ BranchLineFrom(FewBranchLines)
  \/ BranchEnd
  \/ StatusLineFrom(FewStatusLines)
  \/ StatusEnd
  \/ IgnoredLineFrom(FewIgnoredLines)
  \/ IgnoredEnd
  \/ LogBatch
  \/ LogEnd
  \/ RollupFile
  \/ RollupEnd

SpecFail == FailInit /\ [][FailNext]_vars

\* The walker on any tree and any Options.
WalkInit ==
  /\ pc = "walk"
  /\ InitTables
  /\ InitRoot
  /\ branches = <<>>
  /\ brSeen = <<>>
  /\ canRun = Steps
  /\ opts \in [maxDepth : Depths, showHidden : BOOLEAN, followSymlinks : BOOLEAN,
               ignorePatterns : PatternSets, diskUsage : BOOLEAN,
               showStats : BOOLEAN]
  /\ present \in Trees
  /\ denied \in { {}, {<<N_s>>}, {<<N_s, N_a>>}, {<<N_a>>} }
  /\ listed = <<>>
  /\ entries = <<>>
  /\ InitMain
  /\ InitTwice
  /\ InitArgs
  /\ InitSize

WalkNext ==
  \/ ListEntries
  \/ DiskUsage
  \/ PrintTree
  \/ ProjectStats

SpecWalk == WalkInit /\ [][WalkNext]_vars

\* main under --git, from root discovery to the statistics, on the whole
\* tree and a few lines per command.
MainGitInit ==
  /\ pc = "root"
  /\ InitTables
  /\ target \in Targets
  /\ cwd \in Cwds
  /\ gitDirs \in { {}, {<<"r">>}, {<<"r", "s">>} }
  /\ cur = target
  /\ repo_root = EmptyPath
  /\ branches = <<>>
  /\ brSeen = <<>>
  /\ canRun = Steps
  /\ opts = DefaultOptions
  /\ present = Universe
  /\ denied = {}
  /\ listed = <<>>
  /\ entries = <<>>
  /\ InitMain
  /\ InitTwice
  /\ InitArgs
  /\ InitSize

MainGitNext ==
  \/ FindRepoRootStep
  \/ GitFailed
  \/ GitFound
  \/ BranchLineFrom(FewBranchLines)
  \/ BranchEnd
  \/ StatusLineFrom(FewStatusLines)
  \/ StatusEnd
  \/ IgnoredLineFrom(FewIgnoredLines)
  \/ IgnoredEnd
  \/ LogBatch
  \/ LogEnd
  \/ RollupFile
  \/ RollupEnd
  \/ GitDone
  \/ DiskUsage
  \/ PrintTree
  \/ ProjectStats

SpecMainGit == MainGitInit /\ [][MainGitNext]_vars

\* The rollup alone, twice on one fileStatus: each path carries a record as
\* the status parser builds it for a line "c  path", where "T" and "X" are two
\* codes the priority lambda does not list.
RollupCodes == {"M", "T", "X"}

RollupTables ==
  { [p \in StatusPaths |-> ParseInfo(<<code[p], SP, SP>> \o p)] :
      code \in [StatusPaths -> RollupCodes] }

RollupInit ==
  /\ pc = "rollup"
  /\ InitRoot
  /\ InitRest
  /\ fileStatus \in RollupTables
  /\ unrolled = DOMAIN fileStatus
  /\ dirStatus = EmptyMap
  /\ line = <<>>
  /\ written = {}
  /\ nLines = 0
  /\ nIgn = 0
  /\ ignListed = {}
  /\ history = [p \in AllPaths |-> 0]
  /\ pending = {}
  /\ batch = {}
  /\ out = <<>>
  /\ singleQueries = 0

RollupNext ==
  \/ RollupFile
  \/ RollupEnd
  \/ RollupAgain

SpecRollup == RollupInit /\ [][RollupNext]_vars

\* get_git_status twice on the same tool outputs.
TwiceStatusLines ==
  { <<SP, "M", SP>> \o P_a, <<"T", SP, SP>> \o P_sc,
    <<"X", SP, SP>> \o P_sab, <<"?", "?", SP>> \o P_a }

UpTo(S, n) == UNION { [1..k -> S] : k \in 0..n }

Ranks ==
  { <<P_a, P_sab, P_sc, P_d, P_si>>, <<P_si, P_sc, P_d, P_sab, P_a>> }

Scripts ==
  [status : UpTo(TwiceStatusLines, MaxLines),
   ignored : UpTo(FewIgnoredLines, MaxIgn),
   history : Histories,
   rank : Ranks,
   fresh : BOOLEAN]

TwiceInit ==
  /\ pc = "status"
  /\ InitTables
  /\ InitRoot
  /\ branches = <<>>
  /\ brSeen = <<>>
  /\ canRun = Steps
  /\ InitWalk
  /\ InitMain
  /\ InitSize
  /\ InitArgs
  /\ script \in Scripts
  /\ earlier = <<>>

TwiceNext ==
  \/ ScriptedStatusLine
  \/ ScriptedStatusEnd
  \/ ScriptedIgnoredLine
  \/ ScriptedIgnoredEnd
  \/ ScriptedLogBatch
  \/ LogEnd
  \/ ScriptedRollupFile
  \/ RollupEnd
  \/ RunAgain

SpecTwice == TwiceInit /\ [][TwiceNext]_vars

\* Argument parsing on any command line of at most MaxArgs arguments.
MaxArgs == 3

ArgsInit ==
  /\ pc = "args"
  /\ InitTables
  /\ target = RelPath(<<".">>)
  /\ cwd = <<>>
  /\ gitDirs = {}
  /\ cur = EmptyPath
  /\ repo_root = EmptyPath
  /\ branches = <<>>
  /\ brSeen = <<>>
  /\ canRun = Steps
  /\ InitWalk
  /\ InitMain
  /\ InitSize
  /\ InitTwice
  /\ argv \in UpTo(Args, MaxArgs)
  /\ argi = 1
  /\ patterns = <<>>

ArgsNext ==
  \/ ParseArg
  \/ ParseEnd

SpecArgs == ArgsInit /\ [][ArgsNext]_vars

\* human_size on any size.
SizeInit ==
  /\ pc = "size"
  /\ InitTables
  /\ InitRoot
  /\ branches = <<>>
  /\ brSeen = <<>>
  /\ canRun = Steps
  /\ InitWalk
  /\ InitMain
  /\ InitTwice
  /\ InitArgs
  /\ size \in Sizes
  /\ rendered = <<>>

SizeNext ==
  \/ HumanSize

SpecSize == SizeInit /\ [][SizeNext]_vars

\* ===================================================================
\* Properties
\* ===================================================================

\* The priority order Modified > Added > Deleted > Renamed > Copied >
\* Untracked > (unknown) > Ignored, as a rank.
StatusRank(c) ==
  CASE c = "M" -> 7
    [] c = "A" -> 6
    [] c = "D" -> 5
    [] c = "R" -> 4
    [] c = "C" -> 3
    [] c = "U" -> 2
    [] c = "I" -> 0
    [] OTHER -> 1

\* The path f lies (transitively) under the directory d; "" is the root.
Under(f, d) ==
  \/ d = <<>>
  \/ /\ Len(f) > Len(d)
     /\ SubSeq(f, 1, Len(d)) = d
     /\ f[Len(d) + 1] = "/"

\* s without its leading and trailing blanks, tabs, CRs and newlines.
RECURSIVE Strip(_)
Strip(s) ==
  IF s = <<>> THEN <<>>
  ELSE IF Head(s) \in Whitespace THEN Strip(Tail(s))
  ELSE IF s[Len(s)] \in Whitespace THEN Strip(SubSeq(s, 1, Len(s) - 1))
  ELSE s

StartsWithQQ(l) == Len(l) >= 2 /\ l[1] = "?" /\ l[2] = "?"

\* The text of l after its third character.
AfterThird(l) == SubSeq(l, 4, Len(l))

\* C1: after get_git_status succeeds, the priority of every dirStatus entry is
\* the maximum priority among the statuses of the fileStatus entries under
\* that directory; a file s/a/b with status M makes s/a, s and the root read M.
C1_RollupIsMaxPriority ==
  pc = "done" =>
    /\ \A d \in DOMAIN dirStatus :
         LET below == { f \in DOMAIN fileStatus : Under(f, d) }
         IN /\ \E f \in below :
                 StatusRank(fileStatus[f].status) = StatusRank(dirStatus[d])
            /\ \A f \in below :
                 StatusRank(fileStatus[f].status) <= StatusRank(dirStatus[d])
    /\ (P_sab \in DOMAIN fileStatus /\ fileStatus[P_sab].status = "M") =>
         \A d \in { <<"s", "/", "a">>, <<"s">>, <<>> } :
           d \in DOMAIN dirStatus /\ dirStatus[d] = "M"

\* C1 witness: s/a/b is modified, s/c carries a lower-priority status, and
\* the rollup of s reads M.
C1_Witness ==
  /\ pc = "done"
  /\ P_sab \in DOMAIN fileStatus /\ fileStatus[P_sab].status = "M"
  /\ P_sc \in DOMAIN fileStatus /\ fileStatus[P_sc].status = "A"
  /\ <<"s">> \in DOMAIN dirStatus /\ dirStatus[<<"s">>] = "M"

\* C2: every path the ignored-file enumeration has listed is in fileStatus
\* with ignored = true and display status I, whatever record the status step
\* had left for it.
C2_IgnoredOverrides ==
  pc \in {"ignored", "log", "rollup", "done"} =>
    \A l \in ignListed :
      Strip(l) # <<>> =>
        /\ Strip(l) \in DOMAIN fileStatus
        /\ fileStatus[Strip(l)].ignored
        /\ fileStatus[Strip(l)].status = "I"

\* C2 witness: the path a was recorded by a status line (its worktree code is
\* M) and was then listed as ignored.
C2_Witness ==
  /\ pc = "done"
  /\ P_a \in ignListed
  /\ P_a \in DOMAIN fileStatus
  /\ fileStatus[P_a].y = "M"
  /\ fileStatus[P_a].status = "I"

\* C3: the record a tracked status line writes has the line's first
\* character as index code x, its second as worktree code y, and as display
\* status the worktree code unless that is a blank, else the index code.
C3_TrackedCodes ==
  (pc = "status" /\ nLines > 0 /\ ~StartsWithQQ(line)) =>
    \A k \in written :
      /\ fileStatus[k].x = line[1]
      /\ fileStatus[k].y = line[2]
      /\ fileStatus[k].status = (IF line[2] # SP THEN line[2] ELSE line[1])

\* C3 witness: the line "AM s/c" has been parsed into a record.
C3_Witness ==
  /\ pc = "status"
  /\ line = <<"A", "M", SP>> \o P_sc
  /\ written = {P_sc}
  /\ fileStatus[P_sc].status = "M"

\* C4 as claimed: the record of a "??" line has display status U, worktree
\* (unstaged) marker y blank, index (staged) marker x "?", and the text after
\* the third character as its path.
C4_Claimed ==
  (pc = "status" /\ nLines > 0 /\ StartsWithQQ(line)) =>
    \A k \in written :
      /\ fileStatus[k].status = "U"
      /\ fileStatus[k].y = SP
      /\ fileStatus[k].x = "?"
      /\ k = Strip(AfterThird(line))

\* C4 amended: the record of a "??" line has display status U, index (staged)
\* marker x blank, worktree (unstaged) marker y "?", and as its path the text
\* after the third character, trimmed.
C4_UntrackedRecord ==
  (nLines > 0 /\ StartsWithQQ(line)) =>
    /\ \A k \in written :
         /\ fileStatus[k].status = "U"
         /\ fileStatus[k].x = SP
         /\ fileStatus[k].y = "?"
         /\ k = Strip(AfterThird(line))
    /\ Strip(AfterThird(line)) # <<>> => written # {}

\* C4 witness: the line "??  a\r" has been parsed into a record for a.
C4_Witness ==
  /\ pc = "status"
  /\ line = <<"?", "?", SP, SP>> \o P_a \o <<CR>>
  /\ written = {P_a}
  /\ fileStatus[P_a].status = "U"

\* C5: every non-empty status line, of any length, writes at most one record
\* and leaves get_git_status running.
C5_EveryLineSurvives ==
  (nLines > 0 /\ line # <<>>) =>
    /\ pc = "status"
    /\ Cardinality(written) <= 1

\* C6: a tracked line whose remainder holds " -> " is recorded under the text
\* after the arrow, trimmed, and writes nothing under the source name.
C6_RenameTarget ==
  (pc = "status" /\ nLines > 0 /\ ~StartsWithQQ(line) /\ Len(line) >= 3) =>
    \A i \in 1..Len(AfterThird(line)) :
      LET rest == AfterThird(line)
          isFirstArrow ==
            /\ i + 3 <= Len(rest)
            /\ SubSeq(rest, i, i + 3) = Arrow
            /\ \A j \in 1..(i - 1) : SubSeq(rest, j, j + 3) # Arrow
          source == Strip(SubSeq(rest, 1, i - 1))
          dest == Strip(SubSeq(rest, i + 4, Len(rest)))
      IN isFirstArrow =>
           /\ written = (IF dest = <<>> THEN {} ELSE {dest})
           /\ source # dest => source \notin written

\* C6 witness: "R  a -> s/c" has been recorded under s/c and not under a.
C6_Witness ==
  /\ pc = "status"
  /\ line = <<"R", SP, SP>> \o P_a \o Arrow \o P_sc
  /\ written = {P_sc}
  /\ P_a \notin DOMAIN fileStatus

\* C7: after get_git_status every key of fileStatus and of dirStatus is a
\* relative path with no trailing slash, the root being the empty string.
C7_KeysNormalized ==
  pc = "done" =>
    \A k \in DOMAIN fileStatus \cup DOMAIN dirStatus :
      k # <<>> => (k[Len(k)] # "/" /\ k[1] # "/")

\* The number of lines std::getline would read from s.
LineCount(s) ==
  Cardinality({ i \in 1..Len(s) : s[i] = NL })
    + (IF s # <<>> /\ s[Len(s)] # NL THEN 1 ELSE 0)

\* C8: a batch holds at most BatchSize paths, and its per-path fallback
\* queries are issued if and only if the batched output is empty or has more
\* than one line.
C8_FallbackOnlyWhenAmbiguous ==
  (pc = "log" /\ batch # {}) =>
    /\ Cardinality(batch) <= BatchSize
    /\ (singleQueries > 0) <=> (out = <<>> \/ LineCount(out) > 1)

\* C9: after enrichment a path no commit touches has empty author and date,
\* whatever shares its batch, and no stored date is longer than 10 characters.
C9_NoCommitNoAuthor ==
  pc \in {"rollup", "done"} =>
    \A p \in DOMAIN fileStatus :
      /\ (p \notin DOMAIN history \/ history[p] = 0) =>
           (fileStatus[p].author = <<>> /\ fileStatus[p].date = <<>>)
      /\ Len(fileStatus[p].date) <= 10

\* C9 witness: the last batch joined a path without commits and a path whose
\* commit prints a date longer than 10 characters, which was cut to 10.
C9_Witness ==
  /\ pc = "done"
  /\ \E p \in batch, q \in batch :
       /\ history[p] = 0
       /\ history[q] = 1
       /\ Len(DateOf(history[q])) > 10
       /\ fileStatus[q].author = AuthorOf(1)
       /\ Len(fileStatus[q].date) = 10
       /\ fileStatus[p].author = <<>>

\* The repositories at or above the directory the target names.
IsPrefix(d, t) == Len(d) <= Len(t) /\ SubSeq(t, 1, Len(d)) = d
ReposAbove == { d \in gitDirs : IsPrefix(d, Resolve(target, cwd)) }

\* C10: findRepoRoot ends with the nearest directory, among the target and its
\* ancestors up to the filesystem root, that holds a .git directory, and
\* fails only when there is none.
C10_NearestRepository ==
  pc \in {"rootFound", "rootFailed"} =>
    IF ReposAbove = {}
      THEN pc = "rootFailed"
      ELSE /\ pc = "rootFound"
           /\ Resolve(repo_root, cwd) \in ReposAbove
           /\ \A d \in ReposAbove : Len(d) <= Len(Resolve(repo_root, cwd))

\* The lines of the branch listing that are not blank, in the order read.
RECURSIVE NonBlank(_)
NonBlank(ls) ==
  IF ls = <<>> THEN <<>>
  ELSE IF Strip(Head(ls)) = <<>> THEN NonBlank(Tail(ls))
  ELSE <<Head(ls)>> \o NonBlank(Tail(ls))

\* The branch a line names: the line without surrounding whitespace and
\* without the current-branch marker.
NamedBranch(l) ==
  IF Strip(l) # <<>> /\ Head(Strip(l)) = "*"
    THEN Strip(Tail(Strip(l)))
    ELSE Strip(l)

\* C20: branches holds one entry per non-blank line of the listing, in the
\* order received, each the branch name with no surrounding whitespace and no
\* "*" marker.
C20_BranchNames ==
  /\ Len(branches) = Len(NonBlank(brSeen))
  /\ \A i \in 1..Len(branches) : i <= Len(NonBlank(brSeen)) =>
       branches[i] = NamedBranch(NonBlank(brSeen)[i])

\* What the commands that could not be started have contributed at the end
\* of get_git_status: nothing; and what the others have: their results.
FailedStepsContributeNothing ==
  pc = "done" =>
    /\ "branches" \notin canRun => branches = <<>>
    /\ "status" \notin canRun =>
         \A p \in DOMAIN fileStatus :
           fileStatus[p].x = SP /\ fileStatus[p].y = SP /\ fileStatus[p].ignored
    /\ "ignored" \notin canRun =>
         (ignListed = {} /\ \A p \in DOMAIN fileStatus : ~fileStatus[p].ignored)
    /\ "log" \notin canRun =>
         \A p \in DOMAIN fileStatus :
           fileStatus[p].author = <<>> /\ fileStatus[p].date = <<>>
    /\ "branches" \in canRun => Len(branches) = Len(NonBlank(brSeen))
    /\ "ignored" \in canRun =>
         \A l \in ignListed : Strip(l) \in DOMAIN fileStatus
    /\ fileStatus # EmptyMap => <<>> \in DOMAIN dirStatus

\* C12: with the repository root found, a command that cannot be started
\* contributes an empty result for its step only: get_git_status still runs
\* the remaining steps and returns true, and the tables hold what the other
\* steps produced.
C12_FailureIsLocal ==
  canRun # Steps =>
    /\ pc # "aborted"
    /\ FailedStepsContributeNothing


\* ------------------------------------------------------------------- C13
\* C13: the sequence get_filtered_entries returns has every directory before
\* every non-directory, and inside each of the two groups the file names
\* ascend in lexicographic order.
C13_DirectoriesFirstThenByName ==
  (pc = "walk" /\ listed # <<>>) =>
    \A i, j \in 1..Len(entries) : i < j =>
      /\ IsDirectory(entries[j]) => IsDirectory(entries[i])
      /\ IsDirectory(entries[i]) = IsDirectory(entries[j]) =>
           StringLess(Filename(entries[i]), Filename(entries[j]))

\* A listing where a directory stands before a file whose name is smaller,
\* and two files stand in the order of their names.
C13_Witness ==
  /\ pc = "walk"
  /\ \E i, j \in 1..Len(entries) :
       /\ i < j
       /\ IsDirectory(entries[i]) /\ ~IsDirectory(entries[j])
       /\ StringLess(Filename(entries[j]), Filename(entries[i]))
  /\ \E i, j \in 1..Len(entries) :
       /\ i < j
       /\ ~IsDirectory(entries[i]) /\ ~IsDirectory(entries[j])

\* ------------------------------------------------------------------- C14
\* The three reasons the claim gives for leaving a child out.
IsHiddenName(n) == n # <<>> /\ n[1] = "."

MatchesPattern(n, pats) ==
  \/ n \in pats
  \/ \E pat \in pats : Extension(n) = <<".">> \o pat

Occurrences(seq, x) == Cardinality({ i \in 1..Len(seq) : seq[i] = x })

\* C14: a child of a listed directory is absent from the result exactly when
\* it is hidden and show-hidden is off, or its name or its extension without
\* the period is an ignore pattern, or it is a symbolic link and
\* follow-symlinks is off; every other child occurs exactly once.
C14_FilteredExactly ==
  (pc = "walk" /\ listed # <<>> /\ listed[1] \notin denied) =>
    \A p \in ChildrenOf(listed[1]) :
      LET out_ == \/ IsHiddenName(Filename(p)) /\ ~opts.showHidden
                  \/ MatchesPattern(Filename(p), opts.ignorePatterns)
                  \/ IsSymlink(p) /\ ~opts.followSymlinks
      IN /\ out_ <=> Occurrences(entries, p) = 0
         /\ ~out_ => Occurrences(entries, p) = 1

\* A listing that left out a child for its name, one for being hidden and one
\* for being a link, and kept another.
C14_Witness ==
  /\ pc = "walk"
  /\ listed = << <<>> >>
  /\ entries # <<>>
  /\ \E p \in ChildrenOf(<<>>) :
       /\ Filename(p) \in opts.ignorePatterns
       /\ Extension(Filename(p)) = <<>>
       /\ Occurrences(entries, p) = 0
  /\ \E p \in ChildrenOf(<<>>) :
       IsHiddenName(Filename(p)) /\ Occurrences(entries, p) = 0
  /\ \E p \in ChildrenOf(<<>>) :
       IsSymlink(p) /\ Occurrences(entries, p) = 0

\* ------------------------------------------------------------------- C15
\* An entry is reached by the walk when it and each directory above it pass
\* the filter of the directory that holds them.
Visible(p) ==
  /\ p # <<>>
  /\ \A k \in 1..Len(p) : SubSeq(p, 1, k) \in Kept(SubSeq(p, 1, k - 1), opts)

Printed(p) == \E i \in 1..Len(output) : output[i].path = p

\* The depth of an entry below the target: 0 for an immediate child.
DepthOf(p) == Len(p) - 1

\* C15: with max depth N >= 0 a filtered entry is printed exactly when its
\* depth is at most N, so --depth 0 prints the immediate children only; with
\* max depth -1 every filtered entry is printed.
C15_DepthBound ==
  pc \in {"stats", "exit"} =>
    /\ \A p \in Universe : Printed(p) => Visible(p)
    /\ opts.maxDepth >= 0 =>
         \A p \in Universe :
           Visible(p) => (Printed(p) <=> DepthOf(p) <= opts.maxDepth)
    /\ opts.maxDepth = 0 =>
         \A i \in 1..Len(output) : output[i].depth = 0 /\ Len(output[i].path) = 1
    /\ opts.maxDepth = -1 =>
         \A p \in Universe : Visible(p) => Printed(p)

\* A run with --depth 1 that printed a directory of depth 1 and left out the
\* file of depth 2 in it.
C15_Witness ==
  /\ pc = "exit"
  /\ opts.maxDepth = 1
  /\ Printed(<<N_s, N_a>>)
  /\ Visible(<<N_s, N_a, N_b>>)
  /\ ~Printed(<<N_s, N_a, N_b>>)

\* ------------------------------------------------------------------- C16
\* The regular files reachable under a directory of the tree.
FilesUnder(d) ==
  { p \in present : /\ IsRegularFile(p)
                     /\ Len(p) > Len(d)
                     /\ SubSeq(p, 1, Len(d)) = d }

\* C16: after compute_dir_size(target) under --du, dirSizes holds for every
\* directory under the target, and the target, the sum of the sizes of the
\* regular files under it, and print_tree writes a size next to every
\* directory it prints.
C16_EveryDirectorySized ==
  (opts.diskUsage /\ pc \in {"print", "stats", "exit"}) =>
    /\ \A d \in DirsPresent :
         /\ d \in DOMAIN dirSizes
         /\ dirSizes[d] = SumSizes(FilesUnder(d))
    /\ \A i \in 1..Len(output) : output[i].isDir => output[i].du # <<>>

\* ------------------------------------------------------------------- C17
\* C17: an entry that may not be opened never ends the run, and when the
\* statistics walk meets it a warning is written.
C17_ErrorsAreLocal ==
  /\ pc # "terminated"
  /\ (pc = "exit" /\ opts.showStats /\ \E d \in denied : Visible(d)) => diag # <<>>

\* ------------------------------------------------------------------- C18
\* The newline-delimited lines of a text: one per newline character, and one
\* more for text after the last newline.
LinesOf(text) ==
  CountNewlines(text)
    + (IF text # <<>> /\ text[Len(text)] # NL THEN 1 ELSE 0)

RECURSIVE SumLines(_)
SumLines(S) ==
  IF S = {} THEN 0
  ELSE LET p == CHOOSE q \in S : TRUE
       IN LinesOf(Content(p)) + SumLines(S \ {p})

\* C18: the statistics line gives the number of regular files the walk
\* reaches and the sum of their newline-delimited lines.
C18_FilesAndLines ==
  (pc = "exit" /\ opts.showStats) =>
    LET reached == { p \in present : IsRegularFile(p) /\ Visible(p) }
    IN /\ stats # <<>>
       /\ stats[1].files = Cardinality(reached)
       /\ stats[1].lines = SumLines(reached)

\* ------------------------------------------------------------------- C19
\* The unit index of the claim: how often the size can be divided by 1024
\* while the quotient is still at least 1024, at most up to P.
RECURSIVE Divisions(_)
Divisions(d) ==
  IF IsZero(Shifted(d, 1)) THEN 0 ELSE 1 + Divisions(Shifted(d, 1))

ClaimedUnit(d) == Units[(IF Divisions(d) > 5 THEN 5 ELSE Divisions(d)) + 1]

\* The number printed before the decimal point.
RECURSIVE ParseDecimal(_)
ParseDecimal(t) ==
  IF t = <<>> THEN 0
  ELSE LET c == t[Len(t)]
           v == CHOOSE i \in 0..9 : DigitChars[i + 1] = c
       IN v + 10 * ParseDecimal(SubSeq(t, 1, Len(t) - 1))

PointAt(t) == CHOOSE i \in 1..Len(t) : t[i] = "."

Mantissa(t) == ParseDecimal(SubSeq(t, 1, PointAt(t) - 1))

\* C19: human_size(n) is a number with one decimal digit and the unit found
\* by dividing by 1024; 0 gives "0B", 1536 gives "1.5K", 1048576 gives
\* "1.0M", and below the P range the number printed is less than 1024.
C19_HumanSize ==
  rendered # <<>> =>
    LET t == rendered[1]
    IN /\ IsZero(size) => t = <<"0", "B">>
       /\ size = <<512, 1, 0, 0, 0, 0>> => t = <<"1", ".", "5", "K">>
       /\ size = <<0, 0, 1, 0, 0, 0>> => t = <<"1", ".", "0", "M">>
       /\ ~IsZero(size) =>
            /\ t[Len(t)] = ClaimedUnit(size)
            /\ Len(t) >= 4 /\ PointAt(t) = Len(t) - 2
            /\ size[6] = 0 => Mantissa(t) < 1024

\* ------------------------------------------------------------------- C11
\* C11: when root discovery fails under --git, get_git_status leaves
\* fileStatus, dirStatus and branches empty, main writes exactly one warning
\* line to std::cerr, and the tree is printed with no status, no author or
\* date on any entry and no "Branches: " line.
C11_MissingRepository ==
  /\ pc = "rootFailed" =>
       /\ fileStatus = EmptyMap /\ dirStatus = EmptyMap /\ branches = <<>>
       /\ diag = <<>>
  /\ (pc \in {"walk", "print", "stats", "exit"} /\ ~gitOk) =>
       /\ fileStatus = EmptyMap /\ dirStatus = EmptyMap /\ branches = <<>>
       /\ diag = <<NotARepository>>
       /\ banner = <<>>
       /\ \A i \in 1..Len(output) :
            /\ output[i].status = <<>>
            /\ output[i].meta = <<>>
            /\ output[i].color = IF output[i].isDir THEN "blue" ELSE "green"

\* A run outside any repository that has printed the tree and returned.
C11_Witness ==
  /\ pc = "exit"
  /\ ~gitOk
  /\ gitDirs # {}
  /\ diag = <<NotARepository>>
  /\ Len(output) > 2

\* ------------------------------------------------------------------- C22
\* An entry is the last of its filtered siblings when every other entry kept
\* in its directory sorts before it.
IsLastSibling(p) ==
  \A q \in Kept(SubSeq(p, 1, Len(p) - 1), opts) : q # p => EntryLess(q, p)

IsProperPrefix(p, q) == Len(p) < Len(q) /\ SubSeq(q, 1, Len(p)) = p

\* Depth-first pre-order: an entry comes before what is under it, and what is
\* under an entry comes before the entry's later siblings.
PreOrderBefore(p, q) ==
  \/ IsProperPrefix(p, q)
  \/ \E k \in 1..Len(p) :
       /\ k <= Len(q)
       /\ SubSeq(p, 1, k - 1) = SubSeq(q, 1, k - 1)
       /\ p[k] # q[k]
       /\ EntryLess(SubSeq(p, 1, k), SubSeq(q, 1, k))

\* C22: the line of an entry at depth d has d indentation segments, one per
\* directory above it from the outermost inward, blank for a directory that
\* was the last of its siblings and a bar otherwise, then the elbow connector
\* for a last sibling and the tee otherwise; the lines are in pre-order.
C22_PrefixAndOrder ==
  pc \in {"stats", "exit"} =>
    /\ \A i \in 1..Len(output) :
         LET l == output[i]
         IN /\ Len(l.prefix) = DepthOf(l.path)
            /\ l.depth = DepthOf(l.path)
            /\ \A k \in 1..Len(l.prefix) :
                 l.prefix[k] = IF IsLastSibling(SubSeq(l.path, 1, k))
                                 THEN Blank ELSE Pipe
            /\ l.connector = IF IsLastSibling(l.path) THEN Elbow ELSE Tee
    /\ \A i, j \in 1..Len(output) :
         i < j => PreOrderBefore(output[i].path, output[j].path)

\* A printed tree with a line two levels down whose indentation has both
\* segments, and lines with either connector.
C22_Witness ==
  /\ pc = "exit"
  /\ \E i \in 1..Len(output) :
       /\ Len(output[i].prefix) = 2
       /\ output[i].prefix[1] # output[i].prefix[2]
  /\ \E i, j \in 1..Len(output) :
       output[i].connector = Tee /\ output[j].connector = Elbow

\* ------------------------------------------------------------------- C23
\* The colour rule of the claim: ignored, then a staged change, then an
\* unstaged change, then the default.
RuleColor(fi) ==
  IF fi.ignored THEN "gray"
  ELSE IF fi.x \notin {SP, "?"} THEN "yellow"
  ELSE IF fi.y \notin {SP, "?"} THEN "red"
  ELSE "green"

\* C23: on the line of every file that has a Git record, the status suffix
\* has the colour of the file name, which is the colour of the rule.
C23_SuffixColoredAsName ==
  pc \in {"stats", "exit"} =>
    \A i \in 1..Len(output) :
      (~output[i].isDir /\ output[i].status # <<>>) =>
        /\ output[i].color = RuleColor(fileStatus[RelKey(output[i].path, repo_root)])
        /\ output[i].suffixColor = output[i].color

\* ------------------------------------------------------------------- C24
\* C24: whatever the order in which the entries of fileStatus are visited,
\* the rollup stores the same status character for every directory.
C24_OrderIndependent ==
  (pc = "done" /\ earlier # <<>>) =>
    /\ DOMAIN dirStatus = DOMAIN earlier[1].dirStatus
    /\ \A d \in DOMAIN dirStatus : dirStatus[d] = earlier[1].dirStatus[d]

\* ------------------------------------------------------------------- C21
\* C21: a second run of get_git_status on the same tool outputs ends with the
\* fileStatus and dirStatus of the first run, whether it starts from empty
\* tables or from the tables the first run left.
C21_SecondRunSameTables ==
  (pc = "done" /\ earlier # <<>>) =>
    /\ fileStatus = earlier[1].fileStatus
    /\ dirStatus = earlier[1].dirStatus

\* A second run on the tables of the first that ended with an ignored record,
\* a record with an author and a date, and a directory status.
C21_Witness ==
  /\ pc = "done"
  /\ earlier # <<>>
  /\ ~script.fresh
  /\ \E p \in DOMAIN fileStatus : fileStatus[p].ignored
  /\ \E p \in DOMAIN fileStatus :
       fileStatus[p].author # <<>> /\ fileStatus[p].date # <<>>
  /\ \E d \in DOMAIN dirStatus : d # <<>>

\* ------------------------------------------------------------------- C25
\* The lists given by the --ignore occurrences of a command line, in order:
\* what follows "--ignore=", or the argument after "--ignore"; the argument
\* an option takes is not itself an occurrence.
RECURSIVE IgnoreLists(_, _)
IgnoreLists(av, i) ==
  IF i > Len(av) THEN <<>>
  ELSE IF StartsWithIgnoreEq(av[i])
    THEN <<SubSeq(av[i], Len(A_ignoreEq) + 1, Len(av[i]))>> \o IgnoreLists(av, i + 1)
  ELSE IF av[i] = A_ignore /\ i < Len(av)
    THEN <<av[i + 1]>> \o IgnoreLists(av, i + 2)
  ELSE IF av[i] = A_depth /\ i < Len(av)
    THEN IgnoreLists(av, i + 2)
  ELSE IgnoreLists(av, i + 1)

\* The entries of a comma-separated list: the stretches between commas,
\* trimmed, the empty ones left out, in their order.
EntriesOf(csv) ==
  LET cuts == {0, Len(csv) + 1} \cup { i \in 1..Len(csv) : csv[i] = "," }
      starts == { c \in cuts : c <= Len(csv) /\ Trim(SubSeq(csv, c + 1,
                    (CHOOSE d \in cuts : d > c /\ \A e \in cuts : e > c => d <= e) - 1)) # <<>> }
      piece(c) == Trim(SubSeq(csv, c + 1,
                    (CHOOSE d \in cuts : d > c /\ \A e \in cuts : e > c => d <= e) - 1))
      nth(k) == CHOOSE c \in starts : Cardinality({ b \in starts : b < c }) = k - 1
  IN [k \in 1..Cardinality(starts) |-> piece(nth(k))]

\* C25: after argument parsing the ignore patterns are the trimmed,
\* non-empty entries of the last --ignore occurrence, in their order, and
\* nothing of an earlier occurrence.
C25_LastIgnoreWins ==
  pc = "parsed" =>
    LET lists == IgnoreLists(argv, 1)
    IN /\ patterns = IF lists = <<>> THEN <<>> ELSE EntriesOf(lists[Len(lists)])
       /\ opts.ignorePatterns = Range(patterns)

\* A command line with both forms of --ignore, parsed to the two entries of
\* the later one, the entry of the earlier one gone.
C25_Witness ==
  /\ pc = "parsed"
  /\ argv = <<A_ignoreEq \o Csv_c, A_ignore, Csv_ab>>
  /\ patterns = << <<"a">>, <<"b">> >>


====
